---- MODULE Spec2Model ----
(***************************************************************************)
(* Model of phy/cluster/supervisor.py: the ActionFlow log (actions and     *)
(* states, next-state rules) and the Supervisor's selection orchestration  *)
(* (guard flag, asynchronous view callbacks, user select events), the      *)
(* combiner of undo-stack updates and the selection accessors.             *)
(*                                                                         *)
(* Python values are encoded as follows.                                   *)
(*   None (scalar field)        -> None   (-1; cluster ids are naturals)    *)
(*   None (list field)          -> NoneL                                   *)
(*   the list [None]            -> <<None>>                                *)
(*   None (object)              -> NoneObj                                 *)
(*   a Bunch                    -> a record; Bunch equality is dict        *)
(*                                 equality, i.e. record equality          *)
(*   a missing 'wizard' key     -> NoWizard                                *)
(*   an UpdateInfo handed to    -> a function from its keys to their       *)
(*   _process_ups                  values (a dict)                         *)
(* List indices are Python's (0-based); At(f, i) reads f[i] for i >= 0.     *)
(* A function that can raise returns [exc |-> name, val |-> value], with    *)
(* exc = NoExc when it returns normally.                                    *)
(***************************************************************************)
EXTENDS Integers, Sequences, FiniteSets, TLC

VARIABLES _flow, _pause_action_flow, pending, cluster_cb, op, err, ret, calls,
          ups

vars ==
    <<_flow, _pause_action_flow, pending, cluster_cb, op, err, ret, calls, ups>>

(***************************************************************************)
(* Bounds of the model.                                                    *)
(***************************************************************************)
\* Cap on the length of the log under Spec, and under HistorySpec.
MaxFlow == 4
MaxHistory == 8
\* Cap on the length of the log under OperationSpec.
MaxOperation == 4
\* Cap on the length of the log under WizardSpec.
MaxWizard == 8
\* Longest list of updates handed to _process_ups.
MaxUps == 3
\* Longest cluster_ids and similar lists of the state selected() reads.
MaxSelected == 2

\* The cluster ids the views and the collaborators hand over: 0 (falsy in
\* Python) and 1.
Ids == {0, 1}

(***************************************************************************)
(* Python values.                                                          *)
(***************************************************************************)
None == -1
NoneL == <<-2>>
NoneObj == [type |-> "None"]
NoWizard == ""
NoExc == ""

Truthy(n) == n # None /\ n # 0
TruthyL(l) == l # NoneL /\ l # <<>>
ListSet(l) == {l[i] : i \in 1..Len(l)}

Ok(v) == [exc |-> NoExc, val |-> v]
Raise(e) == [exc |-> e, val |-> NoneObj]

(***************************************************************************)
(* Flow entries.                                                           *)
(***************************************************************************)
State(c, s, nc, ns, w) ==
    [type |-> "state", cluster_ids |-> c, similar |-> s,
     next_cluster |-> nc, next_similar |-> ns, wizard |-> w]

MergeAction(cluster_ids, to) ==
    [type |-> "action", name |-> "merge", cluster_ids |-> cluster_ids, to |-> to]
SplitAction(old, new) ==
    [type |-> "action", name |-> "split", old_cluster_ids |-> old,
     new_cluster_ids |-> new]
MoveAction(cluster_ids, group) ==
    [type |-> "action", name |-> "move", cluster_ids |-> cluster_ids,
     group |-> group]
UndoAction(up) == [type |-> "action", name |-> "undo", up |-> up]
RedoAction(up) == [type |-> "action", name |-> "redo", up |-> up]

At(f, i) == f[i + 1]
IsState(e) == e.type = "state"
IsAction(e) == e.type = "action"

(***************************************************************************)
(* _ensure_all_ints: int(x) of every element; int(None) raises TypeError.  *)
(* On integers int() returns the same integer.                             *)
(***************************************************************************)
EnsureAllIntsRaises(l) ==
    /\ l # NoneL
    /\ l # <<>>
    /\ \E i \in 1..Len(l) : l[i] = None

(***************************************************************************)
(* ActionFlow._make_state: a field of the target that is not None is kept, *)
(* a None field takes the argument.  state = NoneObj builds a fresh Bunch. *)
(***************************************************************************)
\* Variant in which an argument that is given replaces the field.
FilledLastWriteWins(state, cluster_ids, similar, next_cluster, next_similar) ==
    LET base == IF state = NoneObj
                THEN State(NoneL, NoneL, None, None, NoWizard)
                ELSE state
    IN [base EXCEPT
          !.cluster_ids = IF cluster_ids # NoneL THEN cluster_ids ELSE @,
          !.similar = IF similar # NoneL THEN similar ELSE @,
          !.next_cluster = IF next_cluster # None THEN next_cluster ELSE @,
          !.next_similar = IF next_similar # None THEN next_similar ELSE @]

Filled(state, cluster_ids, similar, next_cluster, next_similar) ==
    LET base == IF state = NoneObj
                THEN State(NoneL, NoneL, None, None, NoWizard)
                ELSE state
    IN [base EXCEPT
          !.cluster_ids = IF @ = NoneL THEN cluster_ids ELSE @,
          !.similar = IF @ = NoneL THEN similar ELSE @,
          !.next_cluster = IF @ = None THEN next_cluster ELSE @,
          !.next_similar = IF @ = None THEN next_similar ELSE @]

\* The tail of _make_state: _ensure_all_ints on both lists, then return.
EnsuredState(s) ==
    IF EnsureAllIntsRaises(s.cluster_ids) \/ EnsureAllIntsRaises(s.similar)
    THEN [exc |-> "TypeError", val |-> s]
    ELSE Ok(s)

_make_state(cluster_ids, similar, next_cluster, next_similar, state) ==
    EnsuredState(Filled(state, cluster_ids, similar, next_cluster, next_similar))

(***************************************************************************)
(* ActionFlow.current, _index, _previous_state, _last_undo.                *)
(***************************************************************************)
current(f) == IF Len(f) = 0 THEN NoneObj ELSE f[Len(f)]

\* Positions (0-based) of the entries equal to item.
Occurrences(f, item) == {i \in 0..(Len(f) - 1) : At(f, i) = item}

Max(S) == CHOOSE m \in S : \A x \in S : x <= m
Min(S) == CHOOSE m \in S : \A x \in S : m <= x

\* Variant that takes the first position of an equal entry (list.index).
_index_first(f, item) == Min(Occurrences(f, item))

\* len - 1 - reversed.index(item): the last position of an equal entry.
_index(f, item) == Max(Occurrences(f, item))

\* range(1, 10)
ScanFirst == 1
ScanStop == 10

\* Python's f[j] for a possibly negative j; the caller checks the range.
PyPos(f, j) == IF j >= 0 THEN j ELSE Len(f) + j
PyInRange(f, j) == j < Len(f) /\ j >= 0 - Len(f)

\* The steps k of the loop that find a state, and those that fall off the list.
ScanHits(f, i) ==
    {k \in ScanFirst..(ScanStop - 1) :
        PyInRange(f, i - k) /\ IsState(At(f, PyPos(f, i - k)))}
ScanOutOfRange(f, i) ==
    {k \in ScanFirst..(ScanStop - 1) : ~PyInRange(f, i - k)}

\* The loop of _previous_state from position i: it stops at the first k whose
\* entry is a state, and raises IndexError at the first k with i - k out of
\* range.  [exc, pos], pos = None for "return None".
ScanBack(f, i, hit, bad) ==
    IF i = 0 THEN [exc |-> NoExc, pos |-> None]
    ELSE IF hit # {} /\ (bad = {} \/ Min(hit) < Min(bad))
    THEN [exc |-> NoExc, pos |-> PyPos(f, i - Min(hit))]
    ELSE IF bad # {} THEN [exc |-> "IndexError", pos |-> None]
    ELSE [exc |-> NoExc, pos |-> None]

ScanBackFrom(f, i) == ScanBack(f, i, ScanHits(f, i), ScanOutOfRange(f, i))

\* The position _previous_state returns; _index raising ValueError gives None.
_previous_state_index(f, obj) ==
    IF Occurrences(f, obj) = {} THEN [exc |-> NoExc, pos |-> None]
    ELSE ScanBackFrom(f, _index(f, obj))

EntryAt(f, r) ==
    IF r.exc # NoExc THEN Raise(r.exc)
    ELSE IF r.pos = None THEN Ok(NoneObj)
    ELSE Ok(At(f, r.pos))

_previous_state(f, obj) == EntryAt(f, _previous_state_index(f, obj))

UndoEntries(f) ==
    {i \in 0..(Len(f) - 1) : IsAction(At(f, i)) /\ At(f, i).name = "undo"}

_last_undo(f) ==
    IF UndoEntries(f) = {} THEN NoneObj ELSE At(f, Max(UndoEntries(f)))

(***************************************************************************)
(* The next-state rules, ActionFlow._state_after_<name>.  In each, p is    *)
(* the outcome of _previous_state(action).                                 *)
(***************************************************************************)
\* Variant that carries the previous similar set over.
MergedKeepsSimilar(action, p) ==
    IF p.exc # NoExc THEN p
    ELSE IF p.val = NoneObj THEN Raise("AttributeError")
    ELSE _make_state(<<action.to>>, p.val.similar, None, None, NoneObj)

Merged(action, p) ==
    IF p.exc # NoExc THEN p
    ELSE IF p.val = NoneObj THEN Raise("AttributeError")
    ELSE _make_state(<<action.to>>,
                     IF p.val.next_similar # None
                     THEN <<p.val.next_similar>> ELSE NoneL,
                     None, None, NoneObj)

_state_after_merge(f, action) == Merged(action, _previous_state(f, action))

\* Variant that selects the clusters the split removed.
_state_after_split_old_ids(f, action) ==
    _make_state(action.old_cluster_ids, NoneL, None, None, NoneObj)

_state_after_split(f, action) ==
    _make_state(action.new_cluster_ids, NoneL, None, None, NoneObj)

FreshState == State(NoneL, NoneL, None, None, NoWizard)

\* Variant that tests the similar set before the selection.
MoveNextStateSimilarFirst(moved, state) ==
    IF moved \subseteq
         (IF TruthyL(state.similar) THEN ListSet(state.similar) ELSE {})
    THEN [FreshState EXCEPT
            !.cluster_ids = state.cluster_ids,
            !.similar = IF state.next_similar # None
                        THEN <<state.next_similar>> ELSE @]
    ELSE IF moved \subseteq ListSet(state.cluster_ids)
    THEN IF state.next_cluster # None
         THEN [FreshState EXCEPT !.cluster_ids = <<state.next_cluster>>]
         ELSE FreshState
    ELSE [FreshState EXCEPT
            !.wizard = "next_best",
            !.similar = <<state.next_similar>>]

\* Variant whose similar branch does not carry the selection over.
MoveNextStateDropsSelection(moved, state) ==
    IF moved \subseteq ListSet(state.cluster_ids)
    THEN IF state.next_cluster # None
         THEN [FreshState EXCEPT !.cluster_ids = <<state.next_cluster>>]
         ELSE FreshState
    ELSE IF moved \subseteq
              (IF TruthyL(state.similar) THEN ListSet(state.similar) ELSE {})
    THEN [FreshState EXCEPT
            !.similar = IF state.next_similar # None
                        THEN <<state.next_similar>> ELSE @]
    ELSE [FreshState EXCEPT
            !.wizard = "next_best",
            !.similar = <<state.next_similar>>]

\* next_state of _state_after_move, from the moved set and the previous state.
MoveNextState(moved, state) ==
    IF moved \subseteq ListSet(state.cluster_ids)
    THEN IF state.next_cluster # None
         THEN [FreshState EXCEPT !.cluster_ids = <<state.next_cluster>>]
         ELSE FreshState
    ELSE IF moved \subseteq
              (IF TruthyL(state.similar) THEN ListSet(state.similar) ELSE {})
    THEN [FreshState EXCEPT
            !.cluster_ids = state.cluster_ids,
            !.similar = IF state.next_similar # None
                        THEN <<state.next_similar>> ELSE @]
    ELSE [FreshState EXCEPT
            !.wizard = "next_best",
            !.similar = <<state.next_similar>>]

\* The closing _make_state(state=next_state): its value when it returns.
Returned(r) == IF r.exc # NoExc THEN Raise(r.exc) ELSE r

Moved(action, p) ==
    IF p.exc # NoExc THEN p
    ELSE IF p.val = NoneObj THEN Raise("AttributeError")
    ELSE IF p.val.cluster_ids = NoneL THEN Raise("TypeError")
    ELSE Returned(_make_state(NoneL, NoneL, None, None,
                              MoveNextState(ListSet(action.cluster_ids), p.val)))

_state_after_move(f, action) == Moved(action, _previous_state(f, action))

Undone(f, inner) ==
    IF inner.exc # NoExc THEN inner ELSE _previous_state(f, inner.val)

_state_after_undo(f, action) == Undone(f, _previous_state(f, action))

_state_after_redo(f, action) ==
    IF _last_undo(f) # NoneObj
    THEN _previous_state(f, _last_undo(f))
    ELSE Ok(NoneObj)

state_after(f, action) ==
    CASE action.name = "merge" -> _state_after_merge(f, action)
      [] action.name = "split" -> _state_after_split(f, action)
      [] action.name = "move" -> _state_after_move(f, action)
      [] action.name = "undo" -> _state_after_undo(f, action)
      [] action.name = "redo" -> _state_after_redo(f, action)

(***************************************************************************)
(* ActionFlow.add_state and update_current_state on a log f.               *)
(***************************************************************************)
Appended(f, r) ==
    IF r.exc # NoExc THEN [exc |-> r.exc, log |-> f]
    ELSE [exc |-> NoExc, log |-> Append(f, r.val)]

\* add_state(**kwargs): _make_state, then append a copy.
add_state(f, cluster_ids, similar, next_cluster, next_similar) ==
    Appended(f, _make_state(cluster_ids, similar, next_cluster, next_similar,
                            NoneObj))

\* "not state or state.type != 'state'" of update_current_state.
NeedsFreshState(f) == current(f) = NoneObj \/ current(f).type # "state"

\* Variant that appends a fresh state whatever the current entry.
WithFreshStateAlways(f) == Append(f, FreshState)

WithFreshState(f) == IF NeedsFreshState(f) THEN Append(f, FreshState) ELSE f

\* The fields merged into the last entry of f1, in place.
MergedInPlace(f1, r, wasState) ==
    IF r.exc # NoExc /\ ~wasState THEN f1
    ELSE [f1 EXCEPT ![Len(f1)] = r.val]

UpdatedCurrent(f1, cluster_ids, similar, next_cluster, next_similar, wasState) ==
    MergedInPlace(f1,
                  _make_state(cluster_ids, similar, next_cluster, next_similar,
                              current(f1)),
                  wasState)

\* update_current_state: a fresh state is appended first when the current
\* entry is missing or an action; the fields are then merged into the last
\* entry in place.
update_current_state(f, cluster_ids, similar, next_cluster, next_similar) ==
    UpdatedCurrent(WithFreshState(f), cluster_ids, similar, next_cluster,
                   next_similar, ~NeedsFreshState(f))

(***************************************************************************)
(* Supervisor._select_after_action(state): the view calls it issues, each  *)
(* holding the callback _select_similar of the sequence seq.  A pending    *)
(* view call is [cb, via, seq, state]: state is the closure's state.       *)
(***************************************************************************)
Callback(cb, via, seq, state) ==
    [cb |-> cb, via |-> via, seq |-> seq, state |-> state]

\* Variant that drives both views at once instead of chaining the callbacks.
_select_after_action_both_views(state, seq) ==
    (IF TruthyL(state.cluster_ids)
     THEN {Callback("_select_similar", "cluster_view.select", seq, state)}
     ELSE {})
    \cup
    (IF TruthyL(state.similar)
     THEN {Callback("_select_done", "similarity_view.select", seq, state)}
     ELSE {})
    \cup
    (IF state.wizard # NoWizard
     THEN {Callback("_select_similar", "cluster_view.next", seq, state)}
     ELSE {})

_select_after_action(state, seq) ==
    (IF TruthyL(state.cluster_ids)
     THEN {Callback("_select_similar", "cluster_view.select", seq, state)}
     ELSE {})
    \cup
    (IF state.wizard # NoWizard
     THEN {Callback("_select_similar", "cluster_view.next", seq, state)}
     ELSE {})

_select_after_action_calls(state) ==
    (IF TruthyL(state.cluster_ids) THEN <<"cluster_view.select">> ELSE <<>>)
    \o (IF state.wizard # NoWizard THEN <<"cluster_view.next">> ELSE <<>>)

(***************************************************************************)
(* ActionFlow._add_action with the Supervisor connected to 'new_state':    *)
(* append the action, compute the state, emit it (the orchestrator sets    *)
(* the guard and issues its view calls), append the state, return it.      *)
(* An exception leaves what was done before it.  The calls are listed in   *)
(* the order the code makes them, "_append:state" being the append of the  *)
(* computed state.  f1 is the log with the                                 *)
(* action appended, r the outcome of state_after, seq the action's index.  *)
(***************************************************************************)
\* Variant that rewinds the log to the state when the log holds it already
\* (the state an Undo or a Redo restores), instead of appending it.
EmittedRewinding(f1, r, seq) ==
    IF r.exc # NoExc
    THEN [log |-> f1, exc |-> r.exc, ret |-> NoneObj, emitted |-> FALSE,
          issued |-> {}, calls |-> <<>>]
    ELSE IF r.val = NoneObj
    THEN [log |-> f1, exc |-> "AttributeError", ret |-> NoneObj,
          emitted |-> FALSE, issued |-> {}, calls |-> <<"emit:new_state">>]
    ELSE [log |-> IF Occurrences(f1, r.val) # {}
                  THEN SubSeq(f1, 1, _index(f1, r.val) + 1)
                  ELSE Append(f1, r.val),
          exc |-> NoExc, ret |-> r.val,
          emitted |-> TRUE, issued |-> _select_after_action(r.val, seq),
          calls |-> <<"emit:new_state">> \o _select_after_action_calls(r.val)]

Emitted(f1, r, seq) ==
    IF r.exc # NoExc
    THEN [log |-> f1, exc |-> r.exc, ret |-> NoneObj, emitted |-> FALSE,
          issued |-> {}, calls |-> <<>>]
    ELSE IF r.val = NoneObj
    THEN \* _select_after_action(None): None has no attribute 'type'
         \* (and _append(None) raises TypeError where nothing listens)
         [log |-> f1, exc |-> "AttributeError", ret |-> NoneObj,
          emitted |-> FALSE, issued |-> {}, calls |-> <<"emit:new_state">>]
    ELSE [log |-> Append(f1, r.val), exc |-> NoExc, ret |-> r.val,
          emitted |-> TRUE, issued |-> _select_after_action(r.val, seq),
          calls |-> <<"emit:new_state">> \o _select_after_action_calls(r.val)
                    \o <<"_append:state">>]

_add_action(f, action) ==
    Emitted(Append(f, action), state_after(Append(f, action), action), Len(f))

(***************************************************************************)
(* UpdateInfo of the clustering and metadata collaborators.                *)
(***************************************************************************)
SelLists == {<<i>> : i \in Ids}
NextIds == Ids \cup {None}

UpdateInfo(history, description, added, deleted, changed, value) ==
    [history |-> history, description |-> description, added |-> added,
     deleted |-> deleted, metadata_changed |-> changed, metadata_value |-> value]

\* deleted ids only reach the views and the recorded payload.
UpdateInfos ==
    {UpdateInfo(h, "merge", <<>>, <<>>, <<>>, "") : h \in {"undo", "redo"}}
    \cup {UpdateInfo("", "merge", <<to>>, <<0>>, <<>>, "") : to \in Ids}
    \cup {UpdateInfo("", "assign", a, <<0>>, <<>>, "") : a \in SelLists}
    \cup {UpdateInfo("", "metadata_group", <<>>, <<>>, c, "good") : c \in SelLists}
    \cup {UpdateInfo("", "metadata_quality", <<>>, <<>>, <<0>>, "3")}

\* Variant that records every metadata change as a Move.
ActionOfAnyMetadata(up) ==
    IF up.history = "undo" THEN UndoAction(up)
    ELSE IF up.history = "redo" THEN RedoAction(up)
    ELSE IF up.description = "merge" THEN MergeAction(up.deleted, up.added[1])
    ELSE IF up.description = "assign" THEN SplitAction(up.deleted, up.added)
    ELSE MoveAction(up.metadata_changed, up.metadata_value)

\* The action _after_action records for up; NoneObj when it records none.
ActionOf(up) ==
    IF up.history = "undo" THEN UndoAction(up)
    ELSE IF up.history = "redo" THEN RedoAction(up)
    ELSE IF up.description = "merge" THEN MergeAction(up.deleted, up.added[1])
    ELSE IF up.description = "assign" THEN SplitAction(up.deleted, up.added)
    ELSE IF up.description = "metadata_group"
         THEN MoveAction(up.metadata_changed, up.metadata_value)
    ELSE NoneObj

ViewMembershipCalls(up) ==
    <<"cluster_view.add", "similarity_view.add",
      "cluster_view.remove", "similarity_view.remove">>
    \o (IF up.history = "" /\ up.description = "metadata_group"
        THEN <<"cluster_view.change", "similarity_view.change">> ELSE <<>>)

(***************************************************************************)
(* Init: the Supervisor after construction.                                *)
(***************************************************************************)
Init ==
    /\ _flow = <<>>
    /\ _pause_action_flow = FALSE   \* None: read only through "not"
    /\ pending = {}
    /\ cluster_cb = {}
    /\ op = "init"
    /\ err = NoExc
    /\ ret = NoneObj
    /\ calls = <<>>
    /\ ups = <<>>

(***************************************************************************)
(* Supervisor._after_action(up): a 'cluster' event.  r is the outcome of   *)
(* the add_<name> call, when up records an action.                         *)
(***************************************************************************)
ActionRecorded(up, r) ==
    /\ _flow' = r.log
    /\ err' = r.exc
    /\ ret' = r.ret
    /\ _pause_action_flow' = (IF r.emitted THEN TRUE ELSE _pause_action_flow)
    /\ pending' = pending \cup r.issued
    /\ calls' = ViewMembershipCalls(up) \o r.calls

_after_action(up) ==
    /\ op' = "_after_action"
    /\ cluster_cb' = cluster_cb
    /\ ups' = ups
    /\ IF ActionOf(up) = NoneObj
       THEN /\ UNCHANGED <<_flow, _pause_action_flow, pending>>
            /\ err' = NoExc
            /\ ret' = NoneObj
            /\ calls' = ViewMembershipCalls(up)
       ELSE ActionRecorded(up, _add_action(_flow, ActionOf(up)))

(***************************************************************************)
(* Supervisor._clusters_selected and _similar_selected: 'select' events of *)
(* the two views.                                                          *)
(***************************************************************************)
\* Variant that records the selection whatever the guard.
RecordsSelectionAlways(pause) == TRUE

\* "if not self._pause_action_flow": the handler records the selection.
RecordsSelection(pause) == ~pause

\* The rest of a select handler: r is the outcome of its add_state (or the
\* log as it is), done what it does after.
SelectHandled(name, r, done) ==
    /\ op' = name
    /\ _flow' = r.log
    /\ err' = r.exc
    /\ calls' = (IF r.exc # NoExc THEN <<>> ELSE done)
    /\ ret' = NoneObj
    /\ UNCHANGED <<_pause_action_flow, pending, cluster_cb, ups>>

\* Variant that records the selection without the next cluster.
_clusters_selected_without_next(cluster_ids, next_cluster) ==
    SelectHandled(
        "_clusters_selected",
        IF RecordsSelection(_pause_action_flow)
        THEN add_state(_flow, cluster_ids, NoneL, None, None)
        ELSE [exc |-> NoExc, log |-> _flow],
        <<"similarity_view.reset", "emit:select_clusters_done">>)

_clusters_selected(cluster_ids, next_cluster) ==
    SelectHandled(
        "_clusters_selected",
        IF RecordsSelection(_pause_action_flow)
        THEN add_state(_flow, cluster_ids, NoneL, next_cluster, None)
        ELSE [exc |-> NoExc, log |-> _flow],
        <<"similarity_view.reset", "emit:select_clusters_done">>)

\* current.cluster_ids and current.next_cluster raise AttributeError when
\* current is None or an action (no action has both attributes).
_similar_selected(similar, next_similar) ==
    SelectHandled(
        "_similar_selected",
        IF ~RecordsSelection(_pause_action_flow)
        THEN [exc |-> NoExc, log |-> _flow]
        ELSE IF current(_flow) = NoneObj \/ current(_flow).type # "state"
        THEN [exc |-> "AttributeError", log |-> _flow]
        ELSE add_state(_flow, current(_flow).cluster_ids, similar,
                       current(_flow).next_cluster, next_similar),
        <<"emit:select_similar_done">>)

(***************************************************************************)
(* The callbacks of _select_after_action, invoked by the views.  A view    *)
(* call (select, next) returns at once; the view invokes the callback      *)
(* later, with the ids it selected and the next id it suggests, either of  *)
(* which may be None.                                                      *)
(***************************************************************************)
\* _select_done(similar_and_next) on the log f of the closure state.
_select_done_flow(f, state, next_similar) ==
    IF ~Truthy(state.next_similar)
    THEN update_current_state(f, NoneL, NoneL, None, next_similar)
    ELSE f

\* _select_similar(cluster_ids_and_next): the log after its own update.
_select_similar_flow(f, state, cluster_ids, next_cluster) ==
    IF ~Truthy(state.next_cluster)
    THEN update_current_state(
            f, IF TruthyL(state.cluster_ids) THEN state.cluster_ids
               ELSE cluster_ids,
            NoneL, next_cluster, None)
    ELSE f

\* Whether _select_similar goes on to the similarity view.
SelectsSimilarView(state) == TruthyL(state.similar)

\* The second half of _select_similar, on the log f1 after its update.
SimilarSelectionStarted(p, f1) ==
    IF SelectsSimilarView(p.state)
    THEN /\ _flow' = f1
         /\ pending' = (pending \ {p}) \cup
              {Callback("_select_done", "similarity_view.select",
                        p.seq, p.state)}
         /\ calls' = <<"similarity_view.select">>
         /\ UNCHANGED _pause_action_flow
    ELSE /\ _flow' = _select_done_flow(f1, p.state, None)
         /\ pending' = pending \ {p}
         /\ _pause_action_flow' = FALSE
         /\ calls' = <<"emit:select_after_action_done">>

_select_similar(p, cluster_ids, next_cluster) ==
    /\ p \in pending
    /\ p.cb = "_select_similar"
    /\ op' = "_select_similar"
    /\ cluster_cb' = cluster_cb \cup {p.seq}
    /\ err' = NoExc
    /\ ret' = NoneObj
    /\ ups' = ups
    /\ SimilarSelectionStarted(
          p, _select_similar_flow(_flow, p.state, cluster_ids, next_cluster))

_select_done(p, similar, next_similar) ==
    /\ p \in pending
    /\ p.cb = "_select_done"
    /\ op' = "_select_done"
    /\ _flow' = _select_done_flow(_flow, p.state, next_similar)
    /\ pending' = pending \ {p}
    /\ _pause_action_flow' = FALSE
    /\ calls' = <<"emit:select_after_action_done">>
    /\ err' = NoExc
    /\ ret' = NoneObj
    /\ UNCHANGED <<cluster_cb, ups>>

(***************************************************************************)
(* _process_ups(ups): the updates of one undo/redo step combined.  An      *)
(* update is a dict; up.update(other) sets every key of other in up, in    *)
(* place, so the first element of the list is the object returned.         *)
(***************************************************************************)
\* Variant of dict.update that keeps the values up already has.
DictUpdateKeepsFirst(up, other) ==
    [k \in DOMAIN up \cup DOMAIN other |->
        IF k \in DOMAIN up THEN up[k] ELSE other[k]]

DictUpdate(up, other) ==
    [k \in DOMAIN up \cup DOMAIN other |->
        IF k \in DOMAIN other THEN other[k] ELSE up[k]]

_process_ups(l) ==
    IF Len(l) = 0 THEN Ok(NoneObj)
    ELSE IF Len(l) = 1 THEN Ok(l[1])
    ELSE IF Len(l) = 2 THEN Ok(DictUpdate(l[1], l[2]))
    ELSE Raise("NotImplementedError")

\* The list after the call: its first element is updated in place.
ProcessedUps(l) ==
    IF Len(l) = 2 THEN [l EXCEPT ![1] = DictUpdate(l[1], l[2])] ELSE l

ProcessUpsCall ==
    /\ op' = "_process_ups"
    /\ err' = _process_ups(ups).exc
    /\ ret' = _process_ups(ups).val
    /\ ups' = ProcessedUps(ups)
    /\ UNCHANGED <<_flow, _pause_action_flow, pending, cluster_cb, calls>>

\* The updates the two undo stacks produce: some or all of the keys.
UpdateDicts ==
    {[description |-> d] : d \in {"merge", "assign"}}
    \cup {[added |-> a] : a \in SelLists}
    \cup {[description |-> d, added |-> a] :
            d \in {"merge", "assign"}, a \in SelLists}

UpsLists == UNION {[1..n -> UpdateDicts] : n \in 0..MaxUps}

CombinerInit ==
    /\ _flow = <<>>
    /\ _pause_action_flow = FALSE
    /\ pending = {}
    /\ cluster_cb = {}
    /\ op = "init"
    /\ err = NoExc
    /\ ret = NoneObj
    /\ calls = <<>>
    /\ ups \in UpsLists

CombinerNext == ProcessUpsCall

CombinerSpec == CombinerInit /\ [][CombinerNext]_vars

(***************************************************************************)
(* Supervisor.selected_clusters, selected_similar and selected, read off   *)
(* the current entry of the log.  An entry without the attribute raises    *)
(* AttributeError.  _uniq keeps the first occurrence of every element, in  *)
(* order.                                                                  *)
(***************************************************************************)
UniqStep(front, x) == IF x \in ListSet(front) THEN front ELSE Append(front, x)

RECURSIVE _uniq(_)
_uniq(l) ==
    IF l = <<>> THEN <<>>
    ELSE UniqStep(_uniq(SubSeq(l, 1, Len(l) - 1)), l[Len(l)])

\* "state.<field> or [] if state else []" for the value v of the field.
FieldOrEmpty(state, has, v) ==
    IF state = NoneObj THEN Ok(<<>>)
    ELSE IF ~has THEN Raise("AttributeError")
    ELSE Ok(IF TruthyL(v) THEN v ELSE <<>>)

selected_clusters(f) ==
    FieldOrEmpty(current(f),
                 current(f) # NoneObj /\ "cluster_ids" \in DOMAIN current(f),
                 IF current(f) # NoneObj /\ "cluster_ids" \in DOMAIN current(f)
                 THEN current(f).cluster_ids ELSE NoneL)

selected_similar(f) ==
    FieldOrEmpty(current(f),
                 current(f) # NoneObj /\ "similar" \in DOMAIN current(f),
                 IF current(f) # NoneObj /\ "similar" \in DOMAIN current(f)
                 THEN current(f).similar ELSE NoneL)

Concatenated(a, b) ==
    IF a.exc # NoExc THEN a
    ELSE IF b.exc # NoExc THEN b
    ELSE Ok(_uniq(a.val \o b.val))

\* Variant that lists the similar clusters first.
selected_similar_first(f) ==
    Concatenated(selected_similar(f), selected_clusters(f))

selected(f) == Concatenated(selected_clusters(f), selected_similar(f))

Queried(name, r) ==
    /\ op' = name
    /\ err' = r.exc
    /\ ret' = r.val
    /\ calls' = <<>>
    /\ UNCHANGED <<_flow, _pause_action_flow, pending, cluster_cb, ups>>

SelectedClustersCall == Queried("selected_clusters", selected_clusters(_flow))
SelectedSimilarCall == Queried("selected_similar", selected_similar(_flow))
SelectedCall == Queried("selected", selected(_flow))

\* The logs selected() is read on: empty, one State whose two lists are
\* None, empty or hold up to MaxSelected ids, or one Action left alone.
SelectedIds == {1, 2, 3}

SelectedLists ==
    {NoneL} \cup UNION {[1..n -> SelectedIds] : n \in 0..MaxSelected}

SelectionLogs ==
    {<<>>}
    \cup {<<State(c, s, None, None, NoWizard)>> :
            c \in SelectedLists, s \in SelectedLists}
    \cup {<<MoveAction(<<1>>, "good")>>, <<SplitAction(<<1>>, <<2>>)>>}

SelectionInit ==
    /\ _flow \in SelectionLogs
    /\ _pause_action_flow = FALSE
    /\ pending = {}
    /\ cluster_cb = {}
    /\ op = "init"
    /\ err = NoExc
    /\ ret = NoneObj
    /\ calls = <<>>
    /\ ups = <<>>

SelectionNext ==
    \/ SelectedClustersCall
    \/ SelectedSimilarCall
    \/ SelectedCall

SelectionSpec == SelectionInit /\ [][SelectionNext]_vars

(***************************************************************************)
(* Next-state relation.  The log is capped at MaxFlow entries.              *)
(***************************************************************************)
ClusterEvent ==
    /\ Len(_flow) + 2 <= MaxFlow
    /\ \E up \in UpdateInfos : _after_action(up)

ClusterViewSelectEvent ==
    /\ Len(_flow) + 1 <= MaxFlow
    /\ \E ids \in SelLists, nxt \in NextIds : _clusters_selected(ids, nxt)

SimilarityViewSelectEvent ==
    /\ Len(_flow) + 1 <= MaxFlow
    /\ \E ids \in SelLists, nxt \in NextIds : _similar_selected(ids, nxt)

ClusterViewCallback ==
    \E p \in pending, ids \in SelLists \cup {NoneL}, nxt \in NextIds :
        _select_similar(p, ids, nxt)

SimilarityViewCallback ==
    \E p \in pending, ids \in SelLists \cup {NoneL}, nxt \in NextIds :
        _select_done(p, ids, nxt)

Next ==
    \/ ClusterEvent
    \/ ClusterViewSelectEvent
    \/ SimilarityViewSelectEvent
    \/ ClusterViewCallback
    \/ SimilarityViewCallback

Spec == Init /\ [][Next]_vars

(***************************************************************************)
(* Longer histories of undo and redo: the same handlers on a log of up to  *)
(* MaxHistory entries, driven by cluster-view selections and by split,     *)
(* undo and redo events only.                                              *)
(***************************************************************************)
HistoryUpdateInfos ==
    {up \in UpdateInfos :
        up.history # "" \/ (up.description = "assign" /\ up.added = <<1>>)}

HistoryClusterEvent ==
    /\ Len(_flow) + 2 <= MaxHistory
    /\ \E up \in HistoryUpdateInfos : _after_action(up)

HistorySelectEvent ==
    /\ Len(_flow) + 1 <= MaxHistory
    /\ \E ids \in SelLists : _clusters_selected(ids, None)

HistoryNext ==
    \/ HistoryClusterEvent
    \/ HistorySelectEvent
    \/ ClusterViewCallback

HistorySpec == Init /\ [][HistoryNext]_vars

(***************************************************************************)
(* ActionFlow.update_current_state called directly, with any fields, on a  *)
(* log of up to two entries: empty, or ending with a State whose fields    *)
(* are set or not, or ending with an Action left alone by a Move that      *)
(* raised.                                                                 *)
(***************************************************************************)
update_current_state_call(cluster_ids, similar, next_cluster, next_similar) ==
    /\ op' = "update_current_state"
    /\ _flow' = update_current_state(_flow, cluster_ids, similar, next_cluster,
                                     next_similar)
    /\ err' = NoExc
    /\ ret' = NoneObj
    /\ calls' = <<>>
    /\ UNCHANGED <<_pause_action_flow, pending, cluster_cb, ups>>

UpdateCurrentStateCall ==
    \E c \in SelLists \cup {NoneL}, s \in SelLists \cup {NoneL},
       nc \in NextIds, ns \in NextIds :
         update_current_state_call(c, s, nc, ns)

UpdateEntries ==
    {State(c, s, nc, ns, NoWizard) :
        c \in SelLists \cup {NoneL}, s \in SelLists \cup {NoneL},
        nc \in NextIds, ns \in NextIds}
    \cup {MoveAction(<<1>>, "good")}

UpdateLogs ==
    {<<>>}
    \cup {<<e>> : e \in UpdateEntries}
    \cup {<<e1, e2>> :
            e1 \in {State(<<0>>, NoneL, None, None, NoWizard),
                    MoveAction(<<1>>, "good")},
            e2 \in UpdateEntries}

UpdateInit ==
    /\ _flow \in UpdateLogs
    /\ _pause_action_flow = FALSE
    /\ pending = {}
    /\ cluster_cb = {}
    /\ op = "init"
    /\ err = NoExc
    /\ ret = NoneObj
    /\ calls = <<>>
    /\ ups = <<>>

UpdateNext == UpdateCurrentStateCall

UpdateSpec == UpdateInit /\ [][UpdateNext]_vars

(***************************************************************************)
(* The clustering actions of the Supervisor: merge, split, label, move.    *)
(* An accepted action calls its collaborator (clustering or cluster_meta), *)
(* which emits the 'cluster' event handled by _after_action before it      *)
(* returns, and then registers the collaborator with the undo history.     *)
(* A rejected action returns before any of that.                           *)
(***************************************************************************)
\* Nothing recorded: what _after_action does for an update it ignores.
NothingRecorded(f) ==
    [log |-> f, exc |-> NoExc, ret |-> NoneObj, emitted |-> FALSE,
     issued |-> {}, calls |-> <<>>]

RecordedFor(f, up) ==
    IF ActionOf(up) = NoneObj THEN NothingRecorded(f)
    ELSE _add_action(f, ActionOf(up))

\* An accepted action: collaborator call, its 'cluster' event with the
\* outcome r of _after_action, then _global_history.action.
Performed(name, collaborator, up, r) ==
    /\ op' = name
    /\ _flow' = r.log
    /\ err' = r.exc
    /\ ret' = NoneObj
    /\ _pause_action_flow' = (IF r.emitted THEN TRUE ELSE _pause_action_flow)
    /\ pending' = pending \cup r.issued
    /\ calls' = <<collaborator>> \o ViewMembershipCalls(up) \o r.calls
                 \o (IF r.exc = NoExc THEN <<"_global_history.action">>
                     ELSE <<>>)
    /\ UNCHANGED <<cluster_cb, ups>>

\* An action that returns (or raises) before it calls a collaborator.
Returned_early(name, exc, emitted) ==
    /\ op' = name
    /\ err' = exc
    /\ ret' = NoneObj
    /\ calls' = emitted
    /\ UNCHANGED <<_flow, _pause_action_flow, pending, cluster_cb, ups>>

\* "if cluster_ids is None: cluster_ids = self.selected()"
IdsOrSelected(f, cluster_ids) ==
    IF cluster_ids = NoneL THEN selected(f) ELSE Ok(cluster_ids)

\* Variant of the test of merge that lets a single cluster through.
MergeRejectsEmptyOnly(cluster_ids) == Len(cluster_ids) = 0

\* "if len(cluster_ids or []) <= 1: return"
MergeRejects(cluster_ids) == Len(cluster_ids) <= 1

MergeOf(r, to) ==
    IF r.exc # NoExc THEN Returned_early("merge", r.exc, <<>>)
    ELSE IF MergeRejects(r.val) THEN Returned_early("merge", NoExc, <<>>)
    ELSE Performed("merge", "clustering.merge",
                   UpdateInfo("", "merge", <<to>>, r.val, <<>>, ""),
                   RecordedFor(_flow,
                               UpdateInfo("", "merge", <<to>>, r.val, <<>>, "")))

\* merge(cluster_ids): to is the id the clustering gives the merged cluster.
merge(cluster_ids, to) == MergeOf(IdsOrSelected(_flow, cluster_ids), to)

\* Variant of split that does not look at the number of spikes.
split_unchecked(spike_ids, added) ==
    Performed("split", "clustering.split",
              UpdateInfo("", "assign", added, <<0>>, <<>>, ""),
              RecordedFor(_flow, UpdateInfo("", "assign", added, <<0>>, <<>>, "")))

\* split(spike_ids): spike_ids as given or as 'request_split' returns them;
\* added are the clusters the clustering creates.
split(spike_ids, added) ==
    IF Len(spike_ids) = 0
    THEN Returned_early("split", NoExc, <<"emit:error">>)
    ELSE Performed("split", "clustering.split",
                   UpdateInfo("", "assign", added, <<0>>, <<>>, ""),
                   RecordedFor(_flow,
                               UpdateInfo("", "assign", added, <<0>>, <<>>, "")))

LabelOf(name, value, r) ==
    IF r.exc # NoExc THEN Returned_early("label", r.exc, <<>>)
    ELSE IF Len(r.val) = 0 THEN Returned_early("label", NoExc, <<>>)
    ELSE Performed("label", "cluster_meta.set",
                   UpdateInfo("", name, <<>>, <<>>, r.val, value),
                   RecordedFor(_flow,
                               UpdateInfo("", name, <<>>, <<>>, r.val, value)))

\* label(name, value, cluster_ids) for a list (or None) of cluster ids; the
\* metadata emits the update described "metadata_" + name.
label(name, value, cluster_ids) ==
    LabelOf(IF name = "group" THEN "metadata_group" ELSE "metadata_quality",
            value, IdsOrSelected(_flow, cluster_ids))

\* The clusters move resolves 'which' to; a string that is not a selector
\* stays a string.
Which(f, which) ==
    IF which = "all" THEN selected(f)
    ELSE IF which = "best" THEN selected_clusters(f)
    ELSE IF which = "similar" THEN selected_similar(f)
    ELSE Raise("string")

\* group 'unsorted' is stored as None.
GroupValue(group) == IF group = "unsorted" THEN "" ELSE group

MoveOf(group, r) ==
    IF r.exc = "string" THEN Returned_early("move", NoExc, <<"logger.warn">>)
    ELSE IF r.exc # NoExc THEN Returned_early("move", r.exc, <<>>)
    ELSE IF Len(r.val) = 0 THEN Returned_early("move", NoExc, <<>>)
    ELSE Performed("move", "cluster_meta.set",
                   UpdateInfo("", "metadata_group", <<>>, <<>>, r.val,
                              GroupValue(group)),
                   RecordedFor(_flow,
                               UpdateInfo("", "metadata_group", <<>>, <<>>,
                                          r.val, GroupValue(group))))

\* move(group, which) for a selector string.
move(group, which) == MoveOf(group, Which(_flow, which))

\* move(group, which) for a list of cluster ids.
move_ids(group, cluster_ids) == MoveOf(group, Ok(cluster_ids))

SpikeIdLists == {<<>>, <<0>>, <<0, 1>>}
IdLists == {<<>>, <<0>>, <<0, 1>>}
Selectors == {"all", "best", "similar", "0,1"}
Groups == {"good", "unsorted"}

MergeCall ==
    /\ Len(_flow) + 2 <= MaxOperation
    /\ \E ids \in IdLists \cup {NoneL}, to \in {1} : merge(ids, to)

SplitCall ==
    /\ Len(_flow) + 2 <= MaxOperation
    /\ \E spikes \in SpikeIdLists, added \in {<<1>>} : split(spikes, added)

LabelCall ==
    /\ Len(_flow) + 2 <= MaxOperation
    /\ \E ids \in IdLists \cup {NoneL} :
          \/ label("group", "good", ids)
          \/ label("quality", "3", ids)

MoveCall ==
    /\ Len(_flow) + 2 <= MaxOperation
    /\ \/ \E g \in Groups, w \in Selectors : move(g, w)
       \/ \E g \in Groups, ids \in IdLists : move_ids(g, ids)

\* A selection made in the cluster view, or in the similarity view with the
\* id the view would select next.
OperationSelectEvent ==
    /\ Len(_flow) + 1 <= MaxOperation
    /\ \E ids \in SelLists, nxt \in NextIds :
          \/ _clusters_selected(ids, None)
          \/ _similar_selected(ids, nxt)

OperationNext ==
    \/ OperationSelectEvent
    \/ ClusterViewCallback
    \/ SimilarityViewCallback
    \/ MergeCall
    \/ SplitCall
    \/ LabelCall
    \/ MoveCall

OperationSpec == Init /\ [][OperationNext]_vars

(***************************************************************************)
(* Histories with a wizard State: the same handlers on a log of up to      *)
(* MaxWizard entries, driven by one selection in each view, by the Move of *)
(* a cluster that is not selected, and by undo and redo events.            *)
(***************************************************************************)
WizardUpdateInfos ==
    {up \in UpdateInfos :
        \/ up.history # ""
        \/ up.description = "metadata_group" /\ up.metadata_changed = <<1>>}

WizardClusterEvent ==
    /\ Len(_flow) + 2 <= MaxWizard
    /\ \E up \in WizardUpdateInfos : _after_action(up)

WizardSelectEvent ==
    /\ Len(_flow) + 1 <= MaxWizard
    /\ \/ _clusters_selected(<<0>>, None)
       \/ _similar_selected(<<0>>, 1)

WizardViewCallback ==
    \E p \in pending :
        \/ _select_similar(p, <<1>>, None)
        \/ _select_done(p, NoneL, None)

WizardNext ==
    \/ WizardClusterEvent
    \/ WizardSelectEvent
    \/ WizardViewCallback

WizardSpec == Init /\ [][WizardNext]_vars

\* The views invoke every callback they were given.
FairSpec ==
    Spec /\ WF_vars(ClusterViewCallback) /\ WF_vars(SimilarityViewCallback)

(***************************************************************************)
(* Vocabulary of the properties.                                           *)
(***************************************************************************)
Range(q) == {q[i] : i \in 1..Len(q)}

\* The last step recorded an action of this name and returned its state:
\* the action is the entry before the last, ret the state returned.
Recorded(name) ==
    /\ op = "_after_action"
    /\ ret # NoneObj
    /\ Len(_flow) >= 2
    /\ IsAction(_flow[Len(_flow) - 1])
    /\ _flow[Len(_flow) - 1].name = name

RecordedAction == _flow[Len(_flow) - 1]

\* 0-based position of the action the last step recorded.
RecordedPos == Len(_flow) - 2

\* "Previous state relative to position i": the State entry at the greatest
\* position below i.
StatesBelow(f, i) == {j \in 0..(i - 1) : IsState(At(f, j))}
HasStateBelow(f, i) == StatesBelow(f, i) # {}
NearestStateBelow(f, i) == At(f, Max(StatesBelow(f, i)))
NearestStatePosBelow(f, i) == Max(StatesBelow(f, i))

UndoPositions(f, i) ==
    {j \in 0..(i - 1) : IsAction(At(f, j)) /\ At(f, j).name = "undo"}

\* Every action entry is immediately followed by a state entry.
ActionsFollowedByState(f) ==
    \A i \in 1..Len(f) :
        IsAction(f[i]) => (i < Len(f) /\ IsState(f[i + 1]))

(***************************************************************************)
(* C1.  Flow Log invariant: after any sequence of completed or aborted     *)
(* recorded actions, interleaved with add_state and update_current_state,  *)
(* every Action entry of the log is immediately followed by a State entry, *)
(* no Action is the last entry between operations, and a successful        *)
(* recordAction returns the State it appended.                             *)
(***************************************************************************)
C1_ActionNeverAlone ==
    /\ ActionsFollowedByState(_flow)
    /\ (op = "_after_action" /\ ret # NoneObj => ret = current(_flow))

(***************************************************************************)
(* C2.  Guard invariant: while the guard _pause_action_flow is true, a     *)
(* select event from the cluster view or the similarity view appends no    *)
(* entry to the log (the log is unchanged by the event); the handler still *)
(* performs its view-level effect and emits its done notification.         *)
(***************************************************************************)
C2_GuardedSelectAppendsNothing ==
    [][(_pause_action_flow /\ op' \in {"_clusters_selected", "_similar_selected"})
        => /\ Len(_flow') = Len(_flow)
           /\ _flow' = _flow
           /\ err' = NoExc
           /\ (op' = "_clusters_selected" =>
                 calls' = <<"similarity_view.reset", "emit:select_clusters_done">>)
           /\ (op' = "_similar_selected" =>
                 calls' = <<"emit:select_similar_done">>)]_vars

\* A select event was delivered while the guard was held, on a non-empty log.
C2_Witness ==
    /\ _pause_action_flow
    /\ op \in {"_clusters_selected", "_similar_selected"}
    /\ Len(_flow) >= 2

(***************************************************************************)
(* C3.  Guard release: once a State has been handed to the orchestrator    *)
(* (the guard is set), and the views invoke every callback they are given, *)
(* the guard is eventually cleared; it never stays true forever.           *)
(***************************************************************************)
C3_GuardEventuallyReleased == _pause_action_flow ~> ~_pause_action_flow

(***************************************************************************)
(* C4.  Ordering: the similarity-view select of a selection sequence is    *)
(* issued only after the cluster-view selection of the same sequence has   *)
(* invoked its callback, and only by that callback.                        *)
(***************************************************************************)
C4_SimilarAfterClusterSettled ==
    /\ \A p \in pending :
          p.via = "similarity_view.select" => p.seq \in cluster_cb
    /\ ("similarity_view.select" \in Range(calls) => op = "_select_similar")

\* A similarity-view select is in flight.
C4_Witness ==
    \E p \in pending :
        p.via = "similarity_view.select" /\ p.cb = "_select_done"

(***************************************************************************)
(* C5.  Mutual exclusion: while a selection sequence is in flight no       *)
(* second sequence is started, and the guard is true for the whole         *)
(* duration of every in-flight sequence.                                   *)
(***************************************************************************)
C5_OneSequenceInFlight ==
    /\ Cardinality({p.seq : p \in pending}) <= 1
    /\ (pending # {} => _pause_action_flow)

(***************************************************************************)
(* C6.  Redo rule and Undo/Redo round trip: a Redo recorded on a log that  *)
(* contains an Undo action yields the previous state of the most recent    *)
(* Undo action entry, i.e. the nearest State entry below that Undo.        *)
(***************************************************************************)
C6_RedoYieldsStateBeforeLastUndo ==
    Recorded("redo") =>
        LET us == UndoPositions(_flow, RecordedPos)
        IN /\ us # {}
           /\ HasStateBelow(_flow, Max(us))
           /\ ret = NearestStateBelow(_flow, Max(us))

(***************************************************************************)
(* C7.  Undo rule: a recorded Undo yields the previous state of the        *)
(* previous state of the Undo action, two state checkpoints back.          *)
(***************************************************************************)
C7_UndoStepsBackTwoStates ==
    Recorded("undo") =>
        /\ HasStateBelow(_flow, RecordedPos)
        /\ LET p1 == NearestStatePosBelow(_flow, RecordedPos)
           IN /\ HasStateBelow(_flow, p1)
              /\ ret = NearestStateBelow(_flow, p1)

(***************************************************************************)
(* C8.  Redo without Undo: recording a Redo on a log that holds no Undo    *)
(* action is a no-op: it raises no error, leaves no Action standing alone  *)
(* and triggers no selection.                                              *)
(***************************************************************************)
C8_RedoWithoutUndoIsNoop ==
    [][(/\ op' = "_after_action"
        /\ Len(_flow') > Len(_flow)
        /\ IsAction(_flow'[Len(_flow) + 1])
        /\ _flow'[Len(_flow) + 1].name = "redo"
        /\ UndoPositions(_flow, Len(_flow)) = {})
        => /\ err' = NoExc
           /\ ~IsAction(_flow'[Len(_flow')])
           /\ pending' = pending
           /\ _pause_action_flow' = _pause_action_flow]_vars

(***************************************************************************)
(* C9.  Merge rule: with p the previous state relative to the Merge        *)
(* action, the recorded State has cluster_ids = [to], similar =            *)
(* [p.next_similar] when p.next_similar is not None and None otherwise,    *)
(* and next_cluster = next_similar = None.                                 *)
(***************************************************************************)
C9_MergeRule ==
    Recorded("merge") =>
        /\ HasStateBelow(_flow, RecordedPos)
        /\ LET p == NearestStateBelow(_flow, RecordedPos)
           IN /\ ret = current(_flow)
              /\ ret.cluster_ids = <<RecordedAction.to>>
              /\ ret.similar = (IF p.next_similar # None
                                THEN <<p.next_similar>> ELSE NoneL)
              /\ ret.next_cluster = None
              /\ ret.next_similar = None

\* A Merge recorded after a state whose next_similar is set.
C9_Witness ==
    /\ Recorded("merge")
    /\ ret.similar # NoneL
    /\ HasStateBelow(_flow, RecordedPos)
    /\ NearestStateBelow(_flow, RecordedPos).next_similar # None

(***************************************************************************)
(* C10.  Split rule: the recorded State has cluster_ids = new_cluster_ids  *)
(* and similar, next_cluster, next_similar None, whatever the previous     *)
(* state.                                                                  *)
(***************************************************************************)
C10_SplitRule ==
    Recorded("split") =>
        /\ ret = current(_flow)
        /\ ret.cluster_ids = RecordedAction.new_cluster_ids
        /\ ret.similar = NoneL
        /\ ret.next_cluster = None
        /\ ret.next_similar = None
        /\ ret.wizard = NoWizard

\* A Split recorded after a state that carries a similar set and next ids.
C10_Witness ==
    /\ Recorded("split")
    /\ HasStateBelow(_flow, RecordedPos)
    /\ LET p == NearestStateBelow(_flow, RecordedPos)
       IN /\ p.similar # NoneL
          /\ p.next_similar # None
          /\ p.next_cluster # None
          /\ p.cluster_ids # RecordedAction.new_cluster_ids

(***************************************************************************)
(* C14.  History Combiner: _process_ups of no update returns None; of one  *)
(* update returns that update unchanged; of two updates returns an update  *)
(* in which every key of the second has the second's value and every       *)
(* other key keeps the first's value; of three or more updates raises an   *)
(* error and returns nothing.                                              *)
(***************************************************************************)
C14_CombineUpdates ==
    [][op' = "_process_ups" =>
        /\ (Len(ups) = 0 => err' = NoExc /\ ret' = NoneObj)
        /\ (Len(ups) = 1 => err' = NoExc /\ ret' = ups[1])
        /\ (Len(ups) = 2 =>
              /\ err' = NoExc
              /\ DOMAIN ret' = DOMAIN ups[1] \cup DOMAIN ups[2]
              /\ \A k \in DOMAIN ups[2] : ret'[k] = ups[2][k]
              /\ \A k \in DOMAIN ups[1] \ DOMAIN ups[2] : ret'[k] = ups[1][k])
        /\ (Len(ups) >= 3 => err' # NoExc /\ ret' = NoneObj)]_vars

\* Two updates were combined: the result holds a key only the first had
\* and, for a key both had, the second's value.
C14_Witness ==
    /\ op = "_process_ups"
    /\ err = NoExc
    /\ Len(ups) = 2
    /\ DOMAIN ups[2] = {"added"}
    /\ DOMAIN ret = {"description", "added"}
    /\ ret = ups[1]
    /\ ret.added = ups[2].added

(***************************************************************************)
(* C15.  First-write-wins: once a field (cluster_ids, similar,             *)
(* next_cluster, next_similar) of a State entry of the log holds a value   *)
(* that is not None, no step (select event, recorded action, orchestrator  *)
(* callback with its update_current_state) changes that field of that      *)
(* entry; an update only fills fields that are still None.                 *)
(***************************************************************************)
C15_FirstWriteWins ==
    [][\A i \in 1..Len(_flow) :
         IsState(_flow[i]) =>
            /\ i <= Len(_flow')
            /\ IsState(_flow'[i])
            /\ (_flow[i].cluster_ids # NoneL =>
                  _flow'[i].cluster_ids = _flow[i].cluster_ids)
            /\ (_flow[i].similar # NoneL =>
                  _flow'[i].similar = _flow[i].similar)
            /\ (_flow[i].next_cluster # None =>
                  _flow'[i].next_cluster = _flow[i].next_cluster)
            /\ (_flow[i].next_similar # None =>
                  _flow'[i].next_similar = _flow[i].next_similar)]_vars

\* The cluster-view callback of the first action ran when the State of a
\* second action was current: it offered its own cluster_ids to a State that
\* already had others, and filled that State's next_cluster.
C15_Witness ==
    /\ op = "_select_similar"
    /\ cluster_cb = {0}
    /\ Len(_flow) = 4
    /\ IsState(_flow[2])
    /\ IsState(_flow[4])
    /\ _flow[2].wizard = NoWizard
    /\ _flow[2].next_cluster = None
    /\ _flow[2].cluster_ids # NoneL
    /\ _flow[4].cluster_ids # NoneL
    /\ _flow[4].cluster_ids # _flow[2].cluster_ids
    /\ _flow[4].next_cluster # None

\* field of the state e after an update offering v: e's value when it has
\* one, v otherwise.
KeptOr(old, none, v) == IF old # none THEN old ELSE v

(***************************************************************************)
(* C16.  update_current_state: when the current entry is a State the log   *)
(* length is unchanged and that entry is updated in place; when the log    *)
(* is empty or the current entry is an Action exactly one fresh State is   *)
(* appended and then updated; in both cases current() afterwards is the    *)
(* updated State and every entry other than the last is unchanged.         *)
(***************************************************************************)
C16_UpdateCurrentState ==
    [][\A c \in SelLists \cup {NoneL}, s \in SelLists \cup {NoneL},
         nc \in NextIds, ns \in NextIds :
         update_current_state_call(c, s, nc, ns) =>
            LET wasState == Len(_flow) > 0 /\ IsState(_flow[Len(_flow)])
                base == IF wasState THEN _flow[Len(_flow)]
                        ELSE State(NoneL, NoneL, None, None, NoWizard)
            IN /\ Len(_flow') = (IF wasState THEN Len(_flow) ELSE Len(_flow) + 1)
               /\ \A i \in 1..(Len(_flow') - 1) : _flow'[i] = _flow[i]
               /\ current(_flow') =
                     State(KeptOr(base.cluster_ids, NoneL, c),
                           KeptOr(base.similar, NoneL, s),
                           KeptOr(base.next_cluster, None, nc),
                           KeptOr(base.next_similar, None, ns),
                           base.wizard)]_vars

\* update_current_state was called when the current entry was an Action:
\* the log ends with that Action and the State appended after it.
C16_Witness ==
    /\ op = "update_current_state"
    /\ Len(_flow) = 3
    /\ IsState(_flow[1])
    /\ IsAction(_flow[2])
    /\ IsState(_flow[3])
    /\ _flow[3].similar # NoneL
    /\ _flow[3].next_cluster = 0

(***************************************************************************)
(* C17.  Append-only log: in every step (recorded action, Undo and Redo    *)
(* included, user selection, orchestrator update) the length of the log    *)
(* does not decrease, no entry is removed or moved, and an entry whose     *)
(* fields change is the last entry of the log, before and after the step.  *)
(***************************************************************************)
C17_AppendOnly ==
    [][/\ Len(_flow') >= Len(_flow)
       /\ \A i \in 1..Len(_flow) :
             /\ _flow'[i].type = _flow[i].type
             /\ (i < Len(_flow) \/ Len(_flow') > Len(_flow)) =>
                   _flow'[i] = _flow[i]]_vars

\* A Redo was recorded after an Undo: both are entries of the log, and the
\* restored State was appended after them.
C17_Witness ==
    /\ Recorded("redo")
    /\ Len(_flow) = 4
    /\ UndoPositions(_flow, RecordedPos) # {}
    /\ ret = _flow[1]

(***************************************************************************)
(* C18.  User-driven cluster selection: when the guard is false, a select  *)
(* event (ids, nextId) of the cluster view appends exactly one State to    *)
(* the log, with cluster_ids = ids, next_cluster = nextId and similar =    *)
(* next_similar = None, and that State is current() afterwards.            *)
(***************************************************************************)
C18_ClusterSelectionRecorded ==
    [][\A ids \in SelLists, nxt \in NextIds :
         (~_pause_action_flow /\ _clusters_selected(ids, nxt)) =>
            /\ err' = NoExc
            /\ _flow' = Append(_flow, State(ids, NoneL, nxt, None, NoWizard))
            /\ current(_flow') = State(ids, NoneL, nxt, None, NoWizard)]_vars

\* A cluster selection with a next id was recorded on a log that ended with
\* a State with a similar set.
C18_Witness ==
    /\ op = "_clusters_selected"
    /\ ~_pause_action_flow
    /\ Len(_flow) >= 2
    /\ IsState(_flow[Len(_flow)])
    /\ _flow[Len(_flow)].next_cluster # None
    /\ _flow[Len(_flow)].similar = NoneL
    /\ IsState(_flow[Len(_flow) - 1])
    /\ _flow[Len(_flow) - 1].similar # NoneL
    /\ _flow[Len(_flow) - 1].cluster_ids # _flow[Len(_flow)].cluster_ids

(***************************************************************************)
(* C19.  User-driven similarity selection: when the guard is false, a      *)
(* select event (ids, nextId) of the similarity view appends exactly one   *)
(* State with similar = ids and next_similar = nextId, whose cluster_ids   *)
(* and next_cluster are those of the State that was current before; this   *)
(* in every log state, an empty log and a log whose current entry is an    *)
(* Action included.                                                        *)
(***************************************************************************)
C19_SimilarSelectionRecorded ==
    [][\A ids \in SelLists, nxt \in NextIds :
         (~_pause_action_flow /\ _similar_selected(ids, nxt)) =>
            /\ err' = NoExc
            /\ Len(_flow') = Len(_flow) + 1
            /\ \A i \in 1..Len(_flow) : _flow'[i] = _flow[i]
            /\ IsState(current(_flow'))
            /\ current(_flow').similar = ids
            /\ current(_flow').next_similar = nxt
            /\ (Len(_flow) > 0 /\ IsState(current(_flow)) =>
                  /\ current(_flow').cluster_ids = current(_flow).cluster_ids
                  /\ current(_flow').next_cluster =
                        current(_flow).next_cluster)]_vars
SetOrEmpty(l) == IF l = NoneL THEN {} ELSE ListSet(l)

(***************************************************************************)
(* C11.  Move rule, moved set inside the selection: with p the previous    *)
(* state, if the moved ids are a subset of p.cluster_ids the recorded      *)
(* State has cluster_ids = [p.next_cluster] when p.next_cluster is not     *)
(* None and no cluster_ids otherwise, and no wizard directive; this also   *)
(* when the moved ids are a subset of p.similar as well.                   *)
(***************************************************************************)
C11_MoveInsideSelection ==
    Recorded("move") =>
        /\ HasStateBelow(_flow, RecordedPos)
        /\ LET p == NearestStateBelow(_flow, RecordedPos)
           IN (/\ p.cluster_ids # NoneL
               /\ ListSet(RecordedAction.cluster_ids)
                     \subseteq ListSet(p.cluster_ids))
              => /\ ret = current(_flow)
                 /\ ret.cluster_ids = (IF p.next_cluster # None
                                       THEN <<p.next_cluster>> ELSE NoneL)
                 /\ ret.similar = NoneL
                 /\ ret.wizard = NoWizard

\* A Move of ids that are in the selection and in the similar set, after a
\* state whose next_cluster is set.
C11_Witness ==
    /\ Recorded("move")
    /\ HasStateBelow(_flow, RecordedPos)
    /\ LET p == NearestStateBelow(_flow, RecordedPos)
       IN /\ p.cluster_ids # NoneL
          /\ ListSet(RecordedAction.cluster_ids) \subseteq ListSet(p.cluster_ids)
          /\ ListSet(RecordedAction.cluster_ids) \subseteq SetOrEmpty(p.similar)
          /\ p.next_cluster # None
          /\ p.next_similar # None

(***************************************************************************)
(* C12.  Move rule, moved set inside the similar set: with p the previous  *)
(* state, if the moved ids are not a subset of p.cluster_ids but are a     *)
(* subset of p.similar, the recorded State keeps cluster_ids =             *)
(* p.cluster_ids, has similar = [p.next_similar] when p.next_similar is    *)
(* not None and similar None otherwise, and no wizard directive.           *)
(***************************************************************************)
C12_MoveInsideSimilar ==
    Recorded("move") =>
        /\ HasStateBelow(_flow, RecordedPos)
        /\ LET p == NearestStateBelow(_flow, RecordedPos)
           IN (/\ p.cluster_ids # NoneL
               /\ ~(ListSet(RecordedAction.cluster_ids)
                       \subseteq ListSet(p.cluster_ids))
               /\ ListSet(RecordedAction.cluster_ids)
                     \subseteq SetOrEmpty(p.similar))
              => /\ ret = current(_flow)
                 /\ ret.cluster_ids = p.cluster_ids
                 /\ ret.similar = (IF p.next_similar # None
                                   THEN <<p.next_similar>> ELSE NoneL)
                 /\ ret.wizard = NoWizard

\* A Move of a similar cluster that is not selected, after a state whose
\* next_similar is set.
C12_Witness ==
    /\ Recorded("move")
    /\ HasStateBelow(_flow, RecordedPos)
    /\ LET p == NearestStateBelow(_flow, RecordedPos)
       IN /\ p.cluster_ids # NoneL
          /\ ~(ListSet(RecordedAction.cluster_ids) \subseteq ListSet(p.cluster_ids))
          /\ ListSet(RecordedAction.cluster_ids) \subseteq SetOrEmpty(p.similar)
          /\ p.next_similar # None

(***************************************************************************)
(* C13.  Move rule, wizard fallback: with p the previous state, if the     *)
(* moved ids are a subset of neither p.cluster_ids nor p.similar, then     *)
(* for every value of p.next_similar, None included, recording the Move    *)
(* raises no error and appends a State with wizard = "next_best", no       *)
(* cluster_ids and similar = [p.next_similar].                             *)
(***************************************************************************)
C13_MoveWizardFallback ==
    [][(/\ op' = "_after_action"
        /\ Len(_flow') > Len(_flow)
        /\ IsAction(_flow'[Len(_flow) + 1])
        /\ _flow'[Len(_flow) + 1].name = "move"
        /\ HasStateBelow(_flow, Len(_flow))
        /\ NearestStateBelow(_flow, Len(_flow)).cluster_ids # NoneL
        /\ ~(ListSet(_flow'[Len(_flow) + 1].cluster_ids) \subseteq
               ListSet(NearestStateBelow(_flow, Len(_flow)).cluster_ids))
        /\ ~(ListSet(_flow'[Len(_flow) + 1].cluster_ids) \subseteq
               SetOrEmpty(NearestStateBelow(_flow, Len(_flow)).similar)))
        => /\ err' = NoExc
           /\ Len(_flow') = Len(_flow) + 2
           /\ ret' = _flow'[Len(_flow')]
           /\ IsState(ret')
           /\ ret'.wizard = "next_best"
           /\ ret'.cluster_ids = NoneL
           /\ ret'.similar =
                 <<NearestStateBelow(_flow, Len(_flow)).next_similar>>]_vars

\* The current State's list field as a list: empty for an empty log or None.
ListOfCurrent(f, field) ==
    IF Len(f) = 0 THEN <<>>
    ELSE IF f[Len(f)][field] = NoneL THEN <<>>
    ELSE f[Len(f)][field]

\* Position of the first occurrence of x in l.
FirstAt(l, x) == Min({i \in 1..Len(l) : l[i] = x})

\* r holds every element of l once, ordered by first occurrence in l.
IsOrderedUnion(r, l) ==
    /\ ListSet(r) = ListSet(l)
    /\ \A i, j \in 1..Len(r) : i < j => FirstAt(l, r[i]) < FirstAt(l, r[j])

(***************************************************************************)
(* C20.  Selection bookkeeping: selected_clusters() and selected_similar() *)
(* return the cluster_ids and the similar of the current State, or the     *)
(* empty list when the log is empty or the field is None; selected()       *)
(* returns their concatenation, clusters first, without duplicates, every  *)
(* id at its first occurrence: [1,2] and [2,3] give [1,2,3].               *)
(***************************************************************************)
C20_SelectionBookkeeping ==
    (Len(_flow) = 0 \/ IsState(current(_flow))) =>
        /\ (op = "selected_clusters" =>
              err = NoExc /\ ret = ListOfCurrent(_flow, "cluster_ids"))
        /\ (op = "selected_similar" =>
              err = NoExc /\ ret = ListOfCurrent(_flow, "similar"))
        /\ (op = "selected" =>
              /\ err = NoExc
              /\ IsOrderedUnion(ret, ListOfCurrent(_flow, "cluster_ids")
                                       \o ListOfCurrent(_flow, "similar"))
              /\ (/\ ListOfCurrent(_flow, "cluster_ids") = <<1, 2>>
                  /\ ListOfCurrent(_flow, "similar") = <<2, 3>>
                  => ret = <<1, 2, 3>>))

\* selected() was called on the state {cluster_ids: [1,2], similar: [2,3]}.
C20_Witness ==
    /\ op = "selected"
    /\ err = NoExc
    /\ _flow = <<State(<<1, 2>>, <<2, 3>>, None, None, NoWizard)>>
    /\ Len(ret) = 3

\* The step called no collaborator, added nothing to the undo history and
\* left the log, the guard and the pending view calls as they were.
NothingDone ==
    /\ err' = NoExc
    /\ _flow' = _flow
    /\ _pause_action_flow' = _pause_action_flow
    /\ pending' = pending
    /\ Range(calls') \cap {"clustering.merge", "clustering.split",
                           "cluster_meta.set", "_global_history.action",
                           "emit:new_state"} = {}

(***************************************************************************)
(* C21.  Split with zero selected spikes: the operation emits an error     *)
(* message and returns; the log is unchanged, clustering.split is not      *)
(* called and nothing is registered with the undo history.                 *)
(***************************************************************************)
C21_SplitWithoutSpikes ==
    [][\A spikes \in SpikeIdLists, added \in {<<1>>} :
         (Len(spikes) = 0 /\ split(spikes, added)) =>
            /\ NothingDone
            /\ "emit:error" \in Range(calls')]_vars

\* A split without spikes was refused while a selection was current.
C21_Witness ==
    /\ op = "split"
    /\ calls = <<"emit:error">>
    /\ Len(_flow) >= 1
    /\ IsState(current(_flow))

(***************************************************************************)
(* C22.  Rejected operations never reach the log: merge with at most one   *)
(* cluster id (given or taken from the current selection), move whose      *)
(* resolved id set is empty, move with a string that is not 'all', 'best'  *)
(* or 'similar', and label with an empty id set each return without        *)
(* calling the clustering or metadata collaborator, without registering    *)
(* with the undo history, and leave the log and the guard unchanged.       *)
(***************************************************************************)
C22_RejectedOperations ==
    [][/\ \A ids \in IdLists \cup {NoneL} :
            (/\ merge(ids, 1)
             /\ IdsOrSelected(_flow, ids).exc = NoExc
             /\ Len(IdsOrSelected(_flow, ids).val) <= 1) => NothingDone
       /\ \A g \in Groups, w \in Selectors :
            (/\ move(g, w)
             /\ \/ w \notin {"all", "best", "similar"}
                \/ /\ Which(_flow, w).exc = NoExc
                   /\ Len(Which(_flow, w).val) = 0) => NothingDone
       /\ \A g \in Groups, ids \in IdLists :
            (move_ids(g, ids) /\ Len(ids) = 0) => NothingDone
       /\ \A ids \in IdLists \cup {NoneL} :
            (/\ label("group", "good", ids) \/ label("quality", "3", ids)
             /\ IdsOrSelected(_flow, ids).exc = NoExc
             /\ Len(IdsOrSelected(_flow, ids).val) = 0) => NothingDone]_vars

\* A merge was refused while exactly one cluster was selected.
C22_Witness ==
    /\ op = "merge"
    /\ err = NoExc
    /\ calls = <<>>
    /\ Len(_flow) >= 1
    /\ IsState(current(_flow))
    /\ Len(ListOfCurrent(_flow, "cluster_ids")) = 1
    /\ ListOfCurrent(_flow, "similar") = <<>>

\* The value a deferred field settles to: the explicit one when there is
\* one, the view's suggestion otherwise.
ExplicitOr(explicit, suggested) ==
    IF explicit # None THEN explicit ELSE suggested

(***************************************************************************)
(* C23.  Explicit deferred values win: when the cluster view's callback    *)
(* of the sequence of a State s runs with the suggestion nxt, the current  *)
(* State of the log then has next_cluster = s.next_cluster if that was     *)
(* set (0 included) and nxt otherwise; when the similarity view's callback *)
(* runs with the suggestion nxt, the current State has next_similar =      *)
(* s.next_similar if that was set and nxt otherwise.                       *)
(***************************************************************************)
C23_ExplicitDeferredValuesWin ==
    [][/\ \A p \in pending, ids \in SelLists \cup {NoneL}, nxt \in NextIds :
            _select_similar(p, ids, nxt) =>
               /\ IsState(current(_flow'))
               /\ current(_flow').next_cluster =
                     ExplicitOr(p.state.next_cluster, nxt)
       /\ \A p \in pending, ids \in SelLists \cup {NoneL}, nxt \in NextIds :
            _select_done(p, ids, nxt) =>
               /\ IsState(current(_flow'))
               /\ current(_flow').next_similar =
                     ExplicitOr(p.state.next_similar, nxt)]_vars

(***************************************************************************)
(* C24.  Record-then-react ordering: for every recorded action, the        *)
(* computed State has been appended to the log before the orchestrator is  *)
(* notified of it ('new_state') and starts its selection sequence: the     *)
(* notification never comes while the current entry is the bare Action.    *)
(***************************************************************************)
C24_StateAppendedBeforeNotified ==
    \A i \in 1..Len(calls) :
        calls[i] = "emit:new_state" =>
            \E j \in 1..(i - 1) : calls[j] = "_append:state"

(***************************************************************************)
(* C25.  One cluster-view operation per sequence: for every State handed   *)
(* to the orchestrator, States returned by Undo or Redo included, the      *)
(* sequence issues either a cluster-view select or the wizard navigation,  *)
(* never both, so that no sequence has two cluster-view callbacks.         *)
(***************************************************************************)
C25_OneClusterViewOperation ==
    /\ ~({"cluster_view.select", "cluster_view.next"} \subseteq Range(calls))
    /\ \A p, q \in pending :
          (p.seq = q.seq /\ p.cb = "_select_similar" /\ q.cb = "_select_similar")
             => p = q

\* The action the dispatch table gives for an update, NoneObj for none.
ExpectedAction(up) ==
    CASE up.history = "undo" ->
           [type |-> "action", name |-> "undo", up |-> up]
      [] up.history = "redo" ->
           [type |-> "action", name |-> "redo", up |-> up]
      [] up.history = "" /\ up.description = "merge" ->
           [type |-> "action", name |-> "merge", cluster_ids |-> up.deleted,
            to |-> up.added[1]]
      [] up.history = "" /\ up.description = "assign" ->
           [type |-> "action", name |-> "split",
            old_cluster_ids |-> up.deleted, new_cluster_ids |-> up.added]
      [] up.history = "" /\ up.description = "metadata_group" ->
           [type |-> "action", name |-> "move",
            cluster_ids |-> up.metadata_changed, group |-> up.metadata_value]
      [] OTHER -> NoneObj

ActionCount(f) == Cardinality({i \in 1..Len(f) : IsAction(f[i])})

(***************************************************************************)
(* C26.  Cluster-event dispatch: for every UpdateInfo, _after_action       *)
(* records at most one action: Undo for history 'undo' and Redo for        *)
(* history 'redo' whatever the description; otherwise Merge(deleted,       *)
(* added[0]) for 'merge', Split(deleted, added) for 'assign',              *)
(* Move(metadata_changed, metadata_value) for 'metadata_group'; any other  *)
(* description appends nothing and starts no selection sequence.           *)
(***************************************************************************)
C26_ClusterEventDispatch ==
    [][\A up \in UpdateInfos :
         _after_action(up) =>
            IF ExpectedAction(up) = NoneObj
            THEN /\ _flow' = _flow
                 /\ pending' = pending
                 /\ _pause_action_flow' = _pause_action_flow
                 /\ "emit:new_state" \notin Range(calls')
            ELSE /\ Len(_flow') > Len(_flow)
                 /\ _flow'[Len(_flow) + 1] = ExpectedAction(up)
                 /\ ActionCount(_flow') = ActionCount(_flow) + 1]_vars

\* A label change that is not a group change was delivered on a log that
\* holds entries, with a sequence in flight.
C26_Witness ==
    /\ op = "_after_action"
    /\ err = NoExc
    /\ ret = NoneObj
    /\ calls = <<"cluster_view.add", "similarity_view.add",
                 "cluster_view.remove", "similarity_view.remove">>
    /\ Len(_flow) >= 2
    /\ pending # {}

\* The lookup from the entry at position i returns nothing, or the nearest
\* State strictly below the position _index gives for that entry.
LooksBackward(f, i, r) ==
    /\ r.exc = NoExc
    /\ \/ r.pos = None
       \/ /\ r.pos < _index(f, At(f, i))
          /\ IsState(At(f, r.pos))
          /\ r.pos = NearestStatePosBelow(f, _index(f, At(f, i)))

(***************************************************************************)
(* C27.  Previous-state lookup: for every reachable log and every entry X  *)
(* in it, _previous_state(X) returns nothing or the nearest State at a     *)
(* strictly lower index than X within the backward window; it never        *)
(* returns an entry at an index greater than or equal to X's and never     *)
(* raises when no State precedes X.                                        *)
(***************************************************************************)
C27_PreviousStateLooksBackward ==
    \A i \in 0..(Len(_flow) - 1) :
        LooksBackward(_flow, i, _previous_state_index(_flow, At(_flow, i)))

\* The last step recorded an Undo that yielded a State, on a log that ended
\* [Sa, A, Sb] before it.
UndoRecordedAfterStateActionState ==
    /\ Recorded("undo")
    /\ err = NoExc
    /\ Len(_flow) >= 5
    /\ IsState(_flow[Len(_flow)])
    /\ IsState(_flow[Len(_flow) - 2])
    /\ IsAction(_flow[Len(_flow) - 3])
    /\ IsState(_flow[Len(_flow) - 4])

\* The step records a second Undo, directly on top of the first one's State.
SecondUndoRecorded ==
    /\ op' = "_after_action"
    /\ err' = NoExc
    /\ ret' # NoneObj
    /\ Len(_flow') = Len(_flow) + 2
    /\ IsAction(_flow'[Len(_flow) + 1])
    /\ _flow'[Len(_flow) + 1].name = "undo"
    /\ IsState(_flow'[Len(_flow) + 2])

(***************************************************************************)
(* C28.  Consecutive Undos do not step progressively further back: for a   *)
(* log ending [Sa, A, Sb], when an Undo is recorded twice in a row with no *)
(* other entry appended in between and both succeed, the first Undo        *)
(* records a State equal to Sa and the second a State equal to Sb (the     *)
(* State current immediately before the first Undo), not the State         *)
(* preceding Sa.                                                           *)
(***************************************************************************)
C28_ConsecutiveUndosAlternate ==
    [][(UndoRecordedAfterStateActionState /\ SecondUndoRecorded) =>
          /\ ret = _flow[Len(_flow) - 4]
          /\ _flow[Len(_flow)] = _flow[Len(_flow) - 4]
          /\ ret' = _flow[Len(_flow) - 2]
          /\ _flow'[Len(_flow) + 2] = _flow[Len(_flow) - 2]]_vars

\* Two Undos in a row were recorded on a log [.., Sa, A, Sb] with Sa and Sb
\* different and a State below Sa that differs from Sb.
C28_Witness ==
    /\ Recorded("undo")
    /\ err = NoExc
    /\ Len(_flow) >= 8
    /\ IsState(_flow[Len(_flow)])
    /\ IsAction(_flow[Len(_flow) - 3])
    /\ _flow[Len(_flow) - 3].name = "undo"
    /\ IsState(_flow[Len(_flow) - 2])
    /\ IsState(_flow[Len(_flow) - 4])
    /\ IsAction(_flow[Len(_flow) - 5])
    /\ IsState(_flow[Len(_flow) - 6])
    /\ IsState(_flow[Len(_flow) - 7])
    /\ _flow[Len(_flow) - 6] # _flow[Len(_flow) - 4]
    /\ _flow[Len(_flow) - 7] # _flow[Len(_flow) - 4]
    /\ _flow[Len(_flow)] = _flow[Len(_flow) - 4]
    /\ _flow[Len(_flow) - 2] = _flow[Len(_flow) - 6]
====
